---- MODULE Spec2Model ----
(***************************************************************************)
(* A model of app.py (V14 funding monitor): the ledger classifier          *)
(* process_earnings, the funding fetch chains, the fetch section, the      *)
(* metrics (utilization, lifetime APY), the daily chart and the loans /    *)
(* offers / trades tabs.                                                   *)
(*                                                                         *)
(* Conventions.                                                            *)
(*  - A Python value is a record [k, v]: k is its kind ("missing" for an   *)
(*    absent dict key, "none" for None, "num" for a number, "str" for a    *)
(*    text float() / int() cannot parse), v its integer payload.           *)
(*  - Money is counted in cents (0.42 is 42, 745.54 is 74554).             *)
(*  - A text is the set of keywords that occur in it as substrings, which  *)
(*    is all that `keyword in text` reads.                                 *)
(*  - Time is counted in half-days; a timestamp is [k |-> "ms", v |-> t]   *)
(*    (epoch milliseconds of instant t) or [k |-> "s", v |-> t] (epoch     *)
(*    seconds of instant t).                                               *)
(***************************************************************************)
EXTENDS Integers, Sequences, FiniteSets, TLC

VARIABLES
    pc,           \* position of the script
    clock,        \* the wall clock, read by datetime.now() / pd.Timestamp.now()
    entry,        \* process_earnings: the loop variable
    k,            \* process_earnings: number of entries taken from the batch
    data,         \* process_earnings: the rows appended so far
    balance_data, \* fetch section: what fetch_balance left
    raw_ledgers,  \* fetch section: what fetch_ledger left
    loans,        \* fetch section: funding credits
    offers,       \* fetch section: funding offers
    trades,       \* fetch section: funding trades
    debug_info,   \* fetch section: the diagnostics, key -> value
    ex,           \* what the exchange did for each record class (history)
    exchange,     \* a chain called on its own: the record class and what each
                  \* strategy of the exchange object does
    returned,     \* a chain called on its own: what it returned
    total_assets, \* metrics
    free_assets,
    utilization,
    total_income,
    last_30d_income,
    cutoff_30d,
    days_diff,
    apy_all_time,
    range_opt,    \* chart: the range picked in st.radio
    start_date,   \* chart
    end_date,     \* chart
    df_chart,     \* chart: one row per day, <<>> while there is no df_chart
    now_read,     \* the instant each pd.Timestamp.now() returned (history)
    rows,         \* tabs: the rows of the tab being filled; src is the position
                  \* of the record a row comes from (history)
    taken,        \* tabs: number of records of the tab's loop taken
    shown         \* tabs: the table given to st.dataframe, tab -> rows

earnVars == <<entry, k, data>>

chainVars == <<exchange, returned>>

fetchVars ==
    <<balance_data, raw_ledgers, loans, offers, trades, debug_info, ex, chainVars>>

metricVars ==
    <<total_assets, free_assets, utilization, total_income, last_30d_income,
      cutoff_30d, days_diff, apy_all_time, range_opt, start_date, end_date,
      df_chart, now_read>>

chartVars == <<range_opt, start_date, end_date, df_chart>>

bookVars == <<rows, taken, shown>>

vars == <<pc, clock, earnVars, fetchVars, metricVars, bookVars>>

-----------------------------------------------------------------------------
(* Bounds *)

MaxBatch == 2

MaxClock == 82

\* The instant the script starts at.
FirstClock == 80

-----------------------------------------------------------------------------
(* Python values *)

Missing == [k |-> "missing", v |-> 0]

None == [k |-> "none", v |-> 0]

Num(n) == [k |-> "num", v |-> n]

Str == [k |-> "str", v |-> 0]

Ms(t) == [k |-> "ms", v |-> t]

Sec(t) == [k |-> "s", v |-> t]

Text(words) == [k |-> "text", v |-> words]

MissingText == [k |-> "missing", v |-> {}]

NoneText == [k |-> "none", v |-> {}]

Meta(words) == [k |-> "dict", v |-> words]

MissingMeta == [k |-> "missing", v |-> {}]

NoneMeta == [k |-> "none", v |-> {}]

Unserializable == [k |-> "object", v |-> {}]

\* d.get(key, default): the default only when the key is absent.
Get(field, default) == IF field.k = "missing" THEN default ELSE field

\* d.get(key): None when the key is absent.
Get1(field) == Get(field, None)

\* Python truthiness of a value: None, 0 and '' are false.
Truthy(x) ==
    CASE x.k \in {"none", "missing"} -> FALSE
      [] x.k = "num" -> x.v # 0
      [] x.k = "dict" -> x.v # {}
      [] OTHER -> TRUE

\* a or b
Or(a, b) == IF Truthy(a) THEN a ELSE b

\* float(x) / int(x) succeed on numbers only.
Coercible(x) == x.k \in {"num", "ms", "s"}

\* str(x).lower(): the keywords a text field holds ('none' and '' hold none).
Lower(x) == IF x.k = "text" THEN x.v ELSE {}

\* json.dumps(x).lower(): raises on an object json cannot serialize.
Dumpable(x) == x.k # "object"

Dumps(x) == IF x.k = "dict" THEN x.v ELSE {}

\* dt.date(): the calendar day of an instant counted in half-days.
DateOf(t) == t \div 2

\* timedelta(days=n)
Days(n) == n * 2

-----------------------------------------------------------------------------
(* safe_timestamp_to_datetime *)

safe_timestamp_to_datetime(ts, now) ==
    CASE ts.k \in {"none", "missing"} -> now
      [] ts.k = "ms" -> ts.v
      [] ts.k \in {"s", "num"} -> ts.v
      [] OTHER -> now

-----------------------------------------------------------------------------
(* process_earnings *)

keywords == {"funding", "payment", "interest", "payout"}

exclude_types == {"transaction", "transfer", "deposit", "withdrawal"}

IsNonPositive_Strict(amount) == amount < 0

\* line 252: if amount <= 0: continue
IsNonPositive(amount) == amount <= 0

\* line 257: any(x in typ for x in exclude_types)
IsExcluded(typ) == typ \cap exclude_types # {}

\* line 259
is_payout(typ, info) ==
    \/ "payout" \in typ
    \/ "funding" \in typ
    \/ info \cap keywords # {}

\* The body of the loop for one entry: "raise" when the try block raises (the
\* except clause continues), "skip" on a continue, "row" with the appended row.
EarningsRow(e, n, now) ==
    IF e.shape # "dict" THEN [kind |-> "raise"]
    ELSE IF ~Coercible(Get(e.amount, Num(0))) THEN [kind |-> "raise"]
    ELSE LET amount == Get(e.amount, Num(0)).v
             typ == Lower(Get(e.type, Text({})))
             desc == Lower(Get(e.description, Text({})))
             meta == Get(e.info, Get(e.details, Meta({})))
             ts == Or(Or(Get1(e.timestamp), Get1(e.date)), Get1(e.time))
             dt == IF Truthy(ts) THEN safe_timestamp_to_datetime(ts, now) ELSE now
         IN  IF IsNonPositive(amount) THEN [kind |-> "skip"]
             ELSE IF ~Dumpable(meta) THEN [kind |-> "raise"]
             ELSE IF IsExcluded(typ) THEN [kind |-> "skip"]
             ELSE IF is_payout(typ, Dumps(meta))
                  THEN [kind |-> "row",
                        row |-> [src |-> n, date |-> DateOf(dt), datetime |-> dt,
                                 amount |-> amount]]
                  ELSE [kind |-> "skip"]

\* Ledger entries of the batch.
LedgerEntry(amount, type, description, info, details, timestamp) ==
    [shape |-> "dict", amount |-> amount, type |-> type, description |-> description,
     info |-> info, details |-> details, timestamp |-> timestamp,
     date |-> Missing, time |-> Missing]

NotADict ==
    [shape |-> "other", amount |-> Missing, type |-> MissingText,
     description |-> MissingText, info |-> MissingMeta, details |-> MissingMeta,
     timestamp |-> Missing, date |-> Missing, time |-> Missing]

NoEntry == NotADict

Amounts == {Missing, Str, Num(-500), Num(0), Num(42), Num(74554)}

TypeTexts ==
    {MissingText, Text({"payout"}), Text({"interest"}),
     Text({"settlement", "funding"}), Text({"transfer", "payout"})}

DescTexts == {MissingText, Text({"funding", "payment"}), Text({"transfer"})}

\* <<info, details>>
MetaPairs ==
    {<<MissingMeta, MissingMeta>>, <<Meta({"funding"}), MissingMeta>>, <<Meta({"deposit", "interest"}), MissingMeta>>,
     <<MissingMeta, Meta({"payment"})>>, <<NoneMeta, Meta({"payment"})>>,
     <<Unserializable, MissingMeta>>}

Stamps == {Missing, Ms(76)}

LedgerEntries ==
    {LedgerEntry(a, t, d, m[1], m[2], s) :
        a \in Amounts, t \in TypeTexts, d \in DescTexts, m \in MetaPairs, s \in Stamps}
    \cup {NotADict}

\* One iteration of `for entry in ledgers` (lines 249-269), the entry drawn from E.
ProcessEntry(E) ==
    /\ pc = "earnings"
    /\ k < MaxBatch
    /\ \E e \in E :
         LET r == EarningsRow(e, k + 1, clock)
         IN  /\ entry' = e
             /\ k' = k + 1
             /\ data' = IF r.kind = "row" THEN Append(data, r.row) ELSE data
    /\ UNCHANGED <<bookVars, pc, clock, fetchVars, metricVars>>

\* line 270: return pd.DataFrame(data)
ReturnEarnings ==
    /\ pc = "earnings"
    /\ pc' = "metrics"
    /\ UNCHANGED <<bookVars, clock, earnVars, fetchVars, metricVars>>

Ratio(n, d) == [num |-> n, den |-> d]

Zero == Ratio(0, 1)

\* lines 393-395, and no figure computed yet.
MetricsIdle ==
    /\ total_assets = 0
    /\ free_assets = 0
    /\ utilization = Zero
    /\ total_income = 0
    /\ last_30d_income = 0
    /\ cutoff_30d = 0
    /\ days_diff = 0
    /\ apy_all_time = Zero
    /\ range_opt = "30d"
    /\ start_date = 0
    /\ end_date = 0
    /\ df_chart = <<>>
    /\ now_read = [site \in {} |-> 0]

\* No tab has run.
TabsIdle ==
    /\ rows = <<>>
    /\ taken = 0
    /\ shown = [tab \in {} |-> <<>>]

\* lines 314-319, and the exchange before any call.
\* No chain is called on its own.
ChainIdle ==
    /\ exchange = [class |-> "", outs |-> <<>>]
    /\ returned = [k |-> "idle"]

FetchIdle ==
    /\ ChainIdle
    /\ balance_data = [k |-> "none"]
    /\ raw_ledgers = <<>>
    /\ loans = <<>>
    /\ offers = <<>>
    /\ trades = <<>>
    /\ debug_info = [key \in {} |-> ""]
    /\ ex = [c \in {} |-> 0]

InitEarnings ==
    /\ FetchIdle
    /\ MetricsIdle
    /\ TabsIdle
    /\ pc = "earnings"
    /\ clock = FirstClock
    /\ entry = NoEntry
    /\ k = 0
    /\ data = <<>>

NextEarnings ==
    \/ ProcessEntry(LedgerEntries)
    \/ ReturnEarnings

SpecEarnings == InitEarnings /\ [][NextEarnings]_vars

-----------------------------------------------------------------------------
(* The funding fetch chains: try_methods_for_funding_credits / _offers /    *)
(* _trades.  A strategy of the exchange object is absent (hasattr is        *)
(* false), raises, or returns a result (a list, empty or not).              *)

Absent == [k |-> "absent", res |-> <<>>]

Raises == [k |-> "raise", res |-> <<>>]

Returns(res) == [k |-> "return", res |-> res]

\* The names the chain tags a result with, in the order the strategies run.
MethodNames(class) ==
    CASE class = "loans" ->
           <<"fetch_funding_credits", "private_post_auth_r_funding_credits",
             "private_post_r_funding_credits", "request_private_v2">>
      [] class = "offers" ->
           <<"fetch_funding_offers", "private_post_auth_r_funding_offers",
             "private_post_r_funding_offers", "request_private_v2_offers">>
      [] class = "trades" ->
           <<"fetch_funding_trades", "private_post_auth_r_funding_trades_symbol_hist",
             "private_post_r_funding_trades_symbol_hist_alt", "request_private_v2_trades">>

\* The "<strategy> failed: ..." text appended to results when a strategy raises.
FailureNotes(class) ==
    CASE class = "loans" ->
           <<"fetch_funding_credits failed", "private_post_auth_r_funding_credits failed",
             "private_post_r_funding_credits failed", "generic request to v2 credits failed">>
      [] class = "offers" ->
           <<"fetch_funding_offers failed", "private_post_auth_r_funding_offers failed",
             "private_post_r_funding_offers failed", "generic request to v2 offers failed">>
      [] class = "trades" ->
           <<"fetch_funding_trades failed",
             "private_post_auth_r_funding_trades_symbol_hist failed",
             "private_post_r_funding_trades_symbol_hist failed",
             "generic request to v2 trades failed">>

\* A chain that gives up at the first strategy that raises.
RECURSIVE TryFrom_StopOnRaise(_, _, _, _)
TryFrom_StopOnRaise(class, outs, i, results) ==
    IF i > Len(outs)
    THEN [res |-> <<>>, method |-> [name |-> "all_failed", failures |-> results],
          called |-> <<>>]
    ELSE CASE outs[i].k = "absent" -> TryFrom_StopOnRaise(class, outs, i + 1, results)
           [] outs[i].k = "raise" ->
                [res |-> <<>>,
                 method |-> [name |-> "all_failed",
                             failures |-> Append(results, FailureNotes(class)[i])],
                 called |-> <<i>>]
           [] outs[i].k = "return" ->
                IF outs[i].res # <<>>
                THEN [res |-> outs[i].res,
                      method |-> [name |-> MethodNames(class)[i], failures |-> <<>>],
                      called |-> <<i>>]
                ELSE LET r == TryFrom_StopOnRaise(class, outs, i + 1, results)
                     IN  [r EXCEPT !.called = <<i>> \o @]

\* The chain from strategy i on, `results` holding the failures noted so far:
\* the first non-empty result is returned with its strategy's name; after the
\* last strategy, ([], "all_failed: " + " | ".join(results)).  `called` lists
\* the strategies the chain invoked on the exchange, in the order of the
\* calls (history).
RECURSIVE TryFrom(_, _, _, _)
TryFrom(class, outs, i, results) ==
    IF i > Len(outs)
    THEN [res |-> <<>>, method |-> [name |-> "all_failed", failures |-> results],
          called |-> <<>>]
    ELSE CASE outs[i].k = "absent" -> TryFrom(class, outs, i + 1, results)
           [] outs[i].k = "raise" ->
                LET r == TryFrom(class, outs, i + 1,
                                 Append(results, FailureNotes(class)[i]))
                IN  [r EXCEPT !.called = <<i>> \o @]
           [] outs[i].k = "return" ->
                IF outs[i].res # <<>>
                THEN [res |-> outs[i].res,
                      method |-> [name |-> MethodNames(class)[i], failures |-> <<>>],
                      called |-> <<i>>]
                ELSE LET r == TryFrom(class, outs, i + 1, results)
                     IN  [r EXCEPT !.called = <<i>> \o @]

try_methods_for_funding(class, outs) == TryFrom(class, outs, 1, <<>>)

-----------------------------------------------------------------------------
(* The fetch section (lines 313-373) *)

\* debug_info[key] = value
Put(d, key, value) == (key :> value) @@ d

\* What fetch_balance can return.
Wallet(total, free) == [k |-> "dict", total |-> total, free |-> free]

NoWallet == [k |-> "missing", total |-> Missing, free |-> Missing]

NullWallet == [k |-> "none", total |-> Missing, free |-> Missing]

\* A balance with its 'USD' and 'usd' entries; `more` tells it has other keys.
Balance(USD, usd, more) == [k |-> "dict", USD |-> USD, usd |-> usd, more |-> more]

EmptyDict == Balance(NoWallet, NoWallet, FALSE)

NoBalance == [k |-> "none", USD |-> NoWallet, usd |-> NoWallet, more |-> FALSE]

\* 1) lines 322-331: fetch_balance(), then fetch_balance({'type': 'funding'}).
BalanceStep(o1, o2, dbg) ==
    IF o1.k = "return" THEN [balance_data |-> o1.res, debug_info |-> dbg]
    ELSE IF o2.k = "return"
         THEN [balance_data |-> o2.res,
               debug_info |-> Put(dbg, "balance_error", "exception")]
         ELSE [balance_data |-> EmptyDict,
               debug_info |-> Put(Put(dbg, "balance_error", "exception"),
                                  "balance_error_2", "exception")]

LedgersStep_Uncaught(o, dbg) ==
    IF o.k = "return"
    THEN [pc |-> "loans", raw_ledgers |-> o.res, debug_info |-> dbg]
    ELSE [pc |-> "raised", raw_ledgers |-> <<>>, debug_info |-> dbg]

\* 2) lines 334-340: fetch_ledger.
LedgersStep(o, dbg) ==
    IF o.k = "return"
    THEN [pc |-> "loans", raw_ledgers |-> o.res, debug_info |-> dbg]
    ELSE [pc |-> "loans", raw_ledgers |-> <<>>,
          debug_info |-> Put(dbg, "ledgers_error", "exception")]

\* 3)-5) lines 343-367: a funding chain; `res or []`, and the method noted.
FundingStep(class, outs, dbg) ==
    LET r == try_methods_for_funding(class, outs)
    IN  [records |-> r.res,
         debug_info |-> Put(dbg, class \o "_method", r.method)]

\* What the exchange did for a record class, kept for the claims: whether the
\* fetch of the class failed, the records it returned, the failures it noted.
Did(failed, records, failures) ==
    [failed |-> failed, records |-> records, failures |-> failures]

Note(class, did) == (class :> did) @@ ex

\* The outcome of one call of the exchange, over the results R.
Outcomes(R) == {Raises} \cup {Returns(r) : r \in R}

Balances ==
    {NoBalance, EmptyDict,
     Balance(Wallet(Num(100000), Num(30000)), NoWallet, TRUE)}

LedgerBatches ==
    {<<>>,
     <<LedgerEntry(Num(42), Text({"payout"}), MissingText, MissingMeta, MissingMeta,
                   Ms(76))>>}

\* The four strategies of a chain: the i-th returns a record tagged i.
StrategyOutcomes(i) == {Absent, Raises, Returns(<<>>), Returns(<<[id |-> i]>>)}

ChainOutcomes ==
    {<<a, b, c, d>> : a \in StrategyOutcomes(1), b \in StrategyOutcomes(2),
                      c \in StrategyOutcomes(3), d \in StrategyOutcomes(4)}

\* The first strategy that returned a non-empty result, 0 when none did.
FirstNonEmpty(outs) ==
    LET S == {i \in 1..Len(outs) : outs[i].k = "return" /\ outs[i].res # <<>>}
    IN  IF S = {} THEN 0 ELSE CHOOSE i \in S : \A j \in S : i <= j

\* The strategies that raised.
Raised(outs) == {i \in 1..Len(outs) : outs[i].k = "raise"}

ChainDid(outs) ==
    LET f == FirstNonEmpty(outs)
    IN  IF f = 0 THEN Did(TRUE, <<>>, Raised(outs))
        ELSE Did(FALSE, outs[f].res, {})

FetchBalance ==
    /\ pc = "balance"
    /\ \E o1 \in Outcomes(Balances), o2 \in Outcomes(Balances) :
         LET r == BalanceStep(o1, o2, debug_info)
         IN  /\ balance_data' = r.balance_data
             /\ debug_info' = r.debug_info
             /\ ex' = Note("balance",
                           IF o1.k = "return" THEN Did(FALSE, o1.res, {})
                           ELSE IF o2.k = "return" THEN Did(FALSE, o2.res, {})
                           ELSE Did(TRUE, <<>>, {1, 2}))
    /\ pc' = "ledgers"
    /\ UNCHANGED <<bookVars, clock, earnVars, metricVars, chainVars, raw_ledgers, loans, offers, trades>>

FetchLedgers ==
    /\ pc = "ledgers"
    /\ \E o \in Outcomes(LedgerBatches) :
         LET r == LedgersStep(o, debug_info)
         IN  /\ pc' = r.pc
             /\ raw_ledgers' = r.raw_ledgers
             /\ debug_info' = r.debug_info
             /\ ex' = Note("ledgers",
                           IF o.k = "return" THEN Did(FALSE, o.res, {})
                           ELSE Did(TRUE, <<>>, {1}))
    /\ UNCHANGED <<bookVars, clock, earnVars, metricVars, chainVars, balance_data, loans, offers, trades>>

FetchLoans ==
    /\ pc = "loans"
    /\ \E outs \in ChainOutcomes :
         LET r == FundingStep("loans", outs, debug_info)
         IN  /\ loans' = r.records
             /\ debug_info' = r.debug_info
             /\ ex' = Note("loans", ChainDid(outs))
    /\ pc' = "offers"
    /\ UNCHANGED <<bookVars, clock, earnVars, metricVars, chainVars, balance_data, raw_ledgers, offers, trades>>

FetchOffers ==
    /\ pc = "offers"
    /\ \E outs \in ChainOutcomes :
         LET r == FundingStep("offers", outs, debug_info)
         IN  /\ offers' = r.records
             /\ debug_info' = r.debug_info
             /\ ex' = Note("offers", ChainDid(outs))
    /\ pc' = "trades"
    /\ UNCHANGED <<bookVars, clock, earnVars, metricVars, chainVars, balance_data, raw_ledgers, loans, trades>>

FetchTrades ==
    /\ pc = "trades"
    /\ \E outs \in ChainOutcomes :
         LET r == FundingStep("trades", outs, debug_info)
         IN  /\ trades' = r.records
             /\ debug_info' = r.debug_info
             /\ ex' = Note("trades", ChainDid(outs))
    /\ pc' = "counts"
    /\ UNCHANGED <<bookVars, clock, earnVars, metricVars, chainVars, balance_data, raw_ledgers, loans, offers>>

\* lines 371-373: the counts of the snapshot.
DebugCounts ==
    /\ pc = "counts"
    /\ debug_info' = Put(Put(Put(debug_info, "loans_count", Len(loans)),
                             "offers_count", Len(offers)),
                         "trades_count", Len(trades))
    /\ pc' = "fetched"
    /\ UNCHANGED <<bookVars, clock, earnVars, metricVars, chainVars, balance_data, raw_ledgers, loans, offers, trades, ex>>

EarningsIdle ==
    /\ entry = NoEntry
    /\ k = 0
    /\ data = <<>>

InitFetch ==
    /\ FetchIdle
    /\ MetricsIdle
    /\ TabsIdle
    /\ EarningsIdle
    /\ pc = "balance"
    /\ clock = FirstClock

NextFetch ==
    \/ FetchBalance
    \/ FetchLedgers
    \/ FetchLoans
    \/ FetchOffers
    \/ FetchTrades
    \/ DebugCounts

SpecFetch == InitFetch /\ [][NextFetch]_vars

\* One chain called on its own (lines 116-238), over every exchange object:
\* each of its four strategies absent, raising, returning nothing or
\* returning records.
CallChain ==
    /\ pc = "chain"
    /\ returned' = [k |-> "return",
                    value |-> try_methods_for_funding(exchange.class, exchange.outs)]
    /\ pc' = "returned"
    /\ UNCHANGED <<bookVars, clock, earnVars, metricVars, exchange, balance_data,
                   raw_ledgers, loans, offers, trades, debug_info, ex>>

InitChain ==
    /\ EarningsIdle
    /\ MetricsIdle
    /\ TabsIdle
    /\ pc = "chain"
    /\ clock = FirstClock
    /\ balance_data = [k |-> "none"]
    /\ raw_ledgers = <<>>
    /\ loans = <<>>
    /\ offers = <<>>
    /\ trades = <<>>
    /\ debug_info = [key \in {} |-> ""]
    /\ ex = [c \in {} |-> 0]
    /\ exchange \in [class : {"loans", "offers", "trades"}, outs : ChainOutcomes]
    /\ returned = [k |-> "idle"]

NextChain == CallChain

SpecChain == InitChain /\ [][NextChain]_vars

-----------------------------------------------------------------------------
(* The metrics (lines 379-406).  A ratio is kept exact, as numerator and    *)
(* denominator: nothing is rounded before the presentation.                *)

ZeroWallet == Wallet(Num(0), Num(0))

\* `if balance_data:` (line 380): None and {} are false.
HasBalance(b) ==
    /\ b.k # "none"
    /\ b.k = "dict" => (b.USD.k # "missing" \/ b.usd.k # "missing" \/ b.more)

\* lines 379-387: usd_bal.
UsdBal(b) ==
    IF HasBalance(b) /\ b.k = "dict"
    THEN Get(b.USD, Get(b.usd, ZeroWallet))
    ELSE ZeroWallet

\* float(usd_bal.get(key, 0.0) or 0.0)
WalletField(field) == Or(Get(field, Num(0)), Num(0))

\* line 391
UtilizationOf(total, free) ==
    IF total > 0 THEN Ratio((total - free) * 100, total) ELSE Zero

\* lines 379-391: the wallet figures, or the exception the lines raise
\* (usd_bal.get on a value that is no dict, float() on a text).
WalletMetrics(b) ==
    LET usd_bal == UsdBal(b)
    IN  IF usd_bal.k # "dict" THEN [raised |-> TRUE]
        ELSE IF ~Coercible(WalletField(usd_bal.total))
                \/ ~Coercible(WalletField(usd_bal.free))
        THEN [raised |-> TRUE]
        ELSE LET total == WalletField(usd_bal.total).v
                 free == WalletField(usd_bal.free).v
             IN  [raised |-> FALSE, total_assets |-> total, free_assets |-> free,
                  utilization |-> UtilizationOf(total, free)]

\* df['amount'].sum()
RECURSIVE SumAmount(_)
SumAmount(df) ==
    IF df = <<>> THEN 0 ELSE Head(df).amount + SumAmount(Tail(df))

\* df[df['date'] >= cutoff]
Since(df, cutoff) == SelectSeq(df, LAMBDA r : r.date >= cutoff)

\* df['date'].min()
MinDate(df) ==
    CHOOSE d \in {df[j].date : j \in 1..Len(df)} :
        \A j \in 1..Len(df) : d <= df[j].date

DaysDiff_NoPlusOne(now, first_date) == DateOf(now) - first_date

\* line 404: (pd.Timestamp.now().date() - first_date).days + 1
DaysDiff(now, first_date) == DateOf(now) - first_date + 1

ApyAllTime_Floored(income, days, total) ==
    IF total > 0
    THEN Ratio(income * 365 * 100, (IF days > 1 THEN days ELSE 1) * total)
    ELSE Zero

\* lines 405-406, apy_all_time staying 0.0 otherwise
ApyAllTime(income, days, total) ==
    IF days > 0 /\ total > 0 THEN Ratio(income * 365 * 100, days * total) ELSE Zero

\* lines 379-391
ComputeWallet ==
    /\ pc = "metrics"
    /\ LET w == WalletMetrics(balance_data)
       IN  IF w.raised
           THEN /\ pc' = "raised"
                /\ UNCHANGED <<total_assets, free_assets, utilization>>
           ELSE /\ pc' = "income"
                /\ total_assets' = w.total_assets
                /\ free_assets' = w.free_assets
                /\ utilization' = w.utilization
    /\ UNCHANGED <<bookVars, clock, earnVars, fetchVars, total_income, last_30d_income,
                   cutoff_30d, days_diff, apy_all_time, chartVars, now_read>>

\* lines 393-397 with df_earnings empty: the figures stay 0.0.
NoIncome ==
    /\ pc = "income"
    /\ data = <<>>
    /\ pc' = "chart"
    /\ UNCHANGED <<bookVars, clock, earnVars, fetchVars, metricVars>>

\* lines 398-401: the clock is read for the 30-day cutoff.
ComputeIncome ==
    /\ pc = "income"
    /\ data # <<>>
    /\ total_income' = SumAmount(data)
    /\ cutoff_30d' = DateOf(clock) - 30
    /\ last_30d_income' = SumAmount(Since(data, DateOf(clock) - 30))
    /\ now_read' = Put(now_read, "cutoff_30d", clock)
    /\ pc' = "apy"
    /\ UNCHANGED <<bookVars, clock, earnVars, fetchVars, total_assets, free_assets, utilization,
                   days_diff, apy_all_time, chartVars>>

\* lines 403-406: the clock is read again for days_diff.
ComputeApy ==
    /\ pc = "apy"
    /\ days_diff' = DaysDiff(clock, MinDate(data))
    /\ apy_all_time' = ApyAllTime(total_income, DaysDiff(clock, MinDate(data)), total_assets)
    /\ now_read' = Put(now_read, "days_diff", clock)
    /\ pc' = "chart"
    /\ UNCHANGED <<bookVars, clock, earnVars, fetchVars, total_assets, free_assets, utilization,
                   total_income, last_30d_income, cutoff_30d, chartVars>>

\* line 419: the ranges of st.radio, "7天", "30天", "1年", "全部".
RangeOptions == {"7d", "30d", "1y", "all"}

\* lines 421-427: start_date for a range, never after end_date.
StartDate(opt, end, df) ==
    LET start == CASE opt = "7d" -> end - 7
                   [] opt = "30d" -> end - 30
                   [] opt = "1y" -> end - 365
                   [] OTHER -> MinDate(df)
    IN  IF start > end THEN end ELSE start

\* line 429: pd.date_range(start=start_date, end=end_date).date
DateRange(start, end) == [n \in 1..(end - start + 1) |-> start + n - 1]

\* lines 430-432: the income of day d, 0 (fillna) for a day without a row.
DailyAmount(df, start, end, d) ==
    SumAmount(SelectSeq(df, LAMBDA r : r.date >= start /\ r.date <= end /\ r.date = d))

\* line 434
DailyApy(amount, total) == IF total > 0 THEN Ratio(amount * 365 * 100, total) ELSE Zero

\* lines 429-434: full_dates left-merged with the sums per day.
ChartOf(df, start, end, total) ==
    LET full_dates == DateRange(start, end)
    IN  [n \in 1..Len(full_dates) |->
            [date |-> full_dates[n],
             amount |-> DailyAmount(df, start, end, full_dates[n]),
             daily_apy |-> DailyApy(DailyAmount(df, start, end, full_dates[n]), total)]]

\* lines 418-434: the clock is read once more for end_date.
ComputeChart ==
    /\ pc = "chart"
    /\ data # <<>>
    /\ \E opt \in RangeOptions :
         LET end == DateOf(clock)
             start == StartDate(opt, end, data)
         IN  /\ range_opt' = opt
             /\ end_date' = end
             /\ start_date' = start
             /\ df_chart' = ChartOf(data, start, end, total_assets)
    /\ now_read' = Put(now_read, "end_date", clock)
    /\ pc' = "charted"
    /\ UNCHANGED <<bookVars, clock, earnVars, fetchVars, total_assets, free_assets, utilization,
                   total_income, last_30d_income, cutoff_30d, days_diff, apy_all_time>>

\* lines 452-453 with df_earnings empty: no range is read and no df_chart made.
NoChart ==
    /\ pc = "chart"
    /\ data = <<>>
    /\ pc' = "charted"
    /\ UNCHANGED <<bookVars, clock, earnVars, fetchVars, metricVars>>

\* The wall clock advances while the script runs.
Tick ==
    /\ pc \in {"earnings", "metrics", "income", "apy", "chart"}
    /\ clock < MaxClock
    /\ clock' = clock + 1
    /\ UNCHANGED <<bookVars, pc, earnVars, fetchVars, metricVars>>

\* The wallets fetch_balance can have left.
Totals == {None, Num(0), Num(500), Num(1000)}

Frees == {None, Num(0), Num(300)}

MetricBalances ==
    {NoBalance, EmptyDict, [NoBalance EXCEPT !.k = "other"],
     Balance(NoWallet, NoWallet, TRUE), Balance(NullWallet, NoWallet, TRUE),
     Balance(NoWallet, Wallet(Num(1000), Num(300)), TRUE),
     Balance(Wallet(Missing, Missing), NoWallet, TRUE)}
    \cup {Balance(Wallet(t, f), NoWallet, TRUE) : t \in Totals, f \in Frees}

\* Ledger entries that are income, dated long ago, lately, now (no timestamp)
\* and ahead of the clock, and one that is no income.
IncomeEntries ==
    {LedgerEntry(Num(a), Text({"payout"}), MissingText, MissingMeta, MissingMeta, s) :
        a \in {1, 3}, s \in {Missing, Ms(10), Ms(76), Ms(FirstClock + 5)}}
    \cup {LedgerEntry(Num(-3), Text({"payout"}), MissingText, MissingMeta, MissingMeta,
                      Missing)}

InitMetrics ==
    /\ EarningsIdle
    /\ MetricsIdle
    /\ TabsIdle
    /\ ChainIdle
    /\ pc = "earnings"
    /\ clock = FirstClock
    /\ balance_data \in MetricBalances
    /\ raw_ledgers = <<>>
    /\ loans = <<>>
    /\ offers = <<>>
    /\ trades = <<>>
    /\ debug_info = [key \in {} |-> ""]
    /\ ex = [c \in {} |-> 0]

NextMetrics ==
    \/ ProcessEntry(IncomeEntries)
    \/ ReturnEarnings
    \/ ComputeWallet
    \/ NoIncome
    \/ ComputeIncome
    \/ ComputeApy
    \/ Tick

SpecMetrics == InitMetrics /\ [][NextMetrics]_vars

\* The same pass carried on to the chart (lines 376-453).
NextChart ==
    \/ ProcessEntry(IncomeEntries)
    \/ ReturnEarnings
    \/ ComputeWallet
    \/ NoIncome
    \/ ComputeIncome
    \/ ComputeApy
    \/ ComputeChart
    \/ NoChart
    \/ Tick

SpecChart == InitMetrics /\ [][NextChart]_vars

-----------------------------------------------------------------------------
(* The loans / offers / trades tabs (lines 460-577).  A funding record is   *)
(* a mapping (shape "dict", its keys as fields), a positional array (shape  *)
(* "list", its elements in `items`) or something else.  Amounts are in      *)
(* cents, rates in millionths per day, so that to_apy is in millionths of a *)
(* percent.                                                                *)

\* The 'info' / 'details' mapping of a funding record.
Info(period, flags) == [k |-> "dict", period |-> period, flags |-> flags]

NoInfo == [k |-> "missing", period |-> Missing, flags |-> Missing]

NullInfo == [k |-> "none", period |-> Missing, flags |-> Missing]

EmptyInfo == Info(Missing, Missing)

\* A mapping with no key.
BlankDict ==
    [shape |-> "dict", amount |-> Missing, amount_lent |-> Missing, rate |-> Missing,
     rate_percent |-> Missing, price |-> Missing, timestamp |-> Missing,
     created |-> Missing, mts |-> Missing, date |-> Missing, info |-> NoInfo,
     details |-> NoInfo, period |-> Missing, flags |-> Missing, items |-> <<>>]

Array(items) == [BlankDict EXCEPT !.shape = "list", !.items = items]

Scalar == [BlankDict EXCEPT !.shape = "other"]

\* l[n] if len(l) > n else default
At(items, n, default) == IF Len(items) > n THEN items[n + 1] ELSE default

\* l.get('info', l.get('details', {})) or {}
InfoOf(l) ==
    LET x == Get(l.info, Get(l.details, EmptyInfo))
    IN  IF x.k = "dict" THEN x ELSE EmptyInfo

Abs(x) == IF x < 0 THEN -x ELSE x

Max(a, b) == IF a > b THEN a ELSE b

\* to_apy (lines 60-64), on a rate already made a float
to_apy(daily_rate) == daily_rate * 365 * 100

\* f"{x:.2f}%" of a percentage counted in millionths: hundredths of a percent.
Format2(x) == (x + 5000) \div 10000

\* flags & 1024
Bit1024(flags) == (flags \div 1024) % 2 = 1

Raise == [kind |-> "raise"]

Skip == [kind |-> "skip"]

\* lines 483-492: the row of a loan.
LoanRow(n, created, amount, rate, days, now) ==
    [kind |-> "row",
     row |-> [src |-> n, created |-> created, amount |-> amount, APY |-> to_apy(rate),
              days |-> days, remain |-> Max(0, created + Days(days) - now),
              due |-> created + Days(days)]]

\* lines 466-494: the body of the loans loop for the n-th record.
ParseLoan(l, n, now) ==
    CASE l.shape = "dict" ->
           LET amount == Get(l.amount, Or(Get(l.amount_lent, Num(0)), Num(0)))
               rate == Get(l.rate, Or(Get(l.rate_percent, Num(0)), Num(0)))
               ts == Or(Or(Or(Get1(l.timestamp), Get1(l.created)), Get1(l.mts)),
                        Get1(l.date))
               days == Get(InfoOf(l).period, Or(Get(l.period, Num(2)), Num(2)))
           IN  IF Coercible(amount) /\ Coercible(rate) /\ Coercible(days)
               THEN LoanRow(n, safe_timestamp_to_datetime(ts, now), amount.v, rate.v,
                            days.v, now)
               ELSE Raise
      [] l.shape = "list" ->
           LET amount == At(l.items, 5, Num(0))
               rate == At(l.items, 11, Num(0))
               days == At(l.items, 12, Num(2))
           IN  IF Coercible(amount) /\ Coercible(rate) /\ Coercible(days)
               THEN LoanRow(n, safe_timestamp_to_datetime(At(l.items, 3, None), now),
                            Abs(amount.v), rate.v, days.v, now)
               ELSE Raise
      [] OTHER -> Skip

\* lines 525-531: the row of an offer.
OfferRow(n, created, amount, rate, days, is_frr) ==
    [kind |-> "row",
     row |-> [src |-> n, amount |-> amount, type |-> IF is_frr THEN "FRR" ELSE "Limit",
              APY |-> IF is_frr THEN [k |-> "FRR", v |-> 0]
                      ELSE [k |-> "pct", v |-> Format2(to_apy(rate))],
              days |-> days, created |-> created]]

\* lines 507-533: the body of the offers loop for the n-th record.
ParseOffer(o, n, now) ==
    CASE o.shape = "dict" ->
           LET amount == Get(o.amount, Or(Get(o.amount_lent, Num(0)), Num(0)))
               rate == Get(o.rate, Or(Get(o.price, Num(0)), Num(0)))
               ts == Or(Or(Or(Get1(o.timestamp), Get1(o.created)), Get1(o.mts)),
                        Get1(o.date))
               days == Get(InfoOf(o).period, Or(Get(o.period, Num(2)), Num(2)))
               flags == Get(InfoOf(o).flags, Or(Get(o.flags, Num(0)), Num(0)))
           IN  IF /\ Coercible(amount) /\ Coercible(rate) /\ Coercible(days)
                  /\ flags.k = "num"
               THEN OfferRow(n, safe_timestamp_to_datetime(ts, now), amount.v, rate.v,
                             days.v, Bit1024(flags.v) \/ rate.v = 0)
               ELSE Raise
      [] o.shape = "list" ->
           LET rate == At(o.items, 14, Num(0))
               amount == At(o.items, 4, Num(0))
               days == At(o.items, 15, Num(2))
           IN  IF Coercible(amount) /\ Coercible(rate) /\ Coercible(days)
               THEN OfferRow(n, safe_timestamp_to_datetime(At(o.items, 2, None), now),
                             amount.v, rate.v, days.v, rate.v = 0)
               ELSE Raise
      [] OTHER -> Skip

\* lines 562-568: the row of a fill, kept when this account was the lender.
TradeRow(n, created, amt, rate, days) ==
    IF amt > 0
    THEN [kind |-> "row",
          row |-> [src |-> n, created |-> created, amount |-> Abs(amt),
                   APY |-> to_apy(rate), days |-> days]]
    ELSE Skip

\* lines 547-570: the body of the trades loop for the n-th record.
ParseTrade(t, n, now) ==
    CASE t.shape = "dict" ->
           LET ts == Or(Or(Get1(t.timestamp), Get1(t.mts)), Get1(t.date))
               amt == Get(t.amount, Or(Get(t.amount_lent, Num(0)), Num(0)))
               rate == Get(t.rate, Or(Get(t.rate_percent, Num(0)), Num(0)))
               days == Get(t.period, Num(2))
           IN  IF Coercible(amt) /\ Coercible(rate) /\ Coercible(days)
               THEN TradeRow(n, safe_timestamp_to_datetime(ts, now), amt.v, rate.v,
                             days.v)
               ELSE Raise
      [] t.shape = "list" ->
           LET amt == At(t.items, 4, Num(0))
               rate == At(t.items, 5, Num(0))
               days == At(t.items, 6, Num(2))
           IN  IF Coercible(amt) /\ Coercible(rate) /\ Coercible(days)
               THEN TradeRow(n, safe_timestamp_to_datetime(At(t.items, 2, None), now),
                             amt.v, rate.v, days.v)
               ELSE Raise
      [] OTHER -> Skip

\* trades[:200]
RecentFillsLimit == 200

Take(s, n) == IF Len(s) <= n THEN s ELSE SubSeq(s, 1, n)

\* The records a tab iterates over.
TabRecords(tab) ==
    CASE tab = "loans" -> loans
      [] tab = "offers" -> offers
      [] tab = "trades" -> Take(trades, RecentFillsLimit)

ParseRecord(tab, r, n, now) ==
    CASE tab = "loans" -> ParseLoan(r, n, now)
      [] tab = "offers" -> ParseOffer(r, n, now)
      [] tab = "trades" -> ParseTrade(r, n, now)

\* The position of the script at the `with` block of a tab, in its loop, and
\* after the block.
AtTab(tab) == "tab_" \o tab

InLoop(tab) == "loop_" \o tab

AfterTab(tab) ==
    CASE tab = "loans" -> AtTab("offers")
      [] tab = "offers" -> AtTab("trades")
      [] tab = "trades" -> "done"

\* pd.DataFrame(rows).sort_values("APY", ascending=False): the row put before
\* the first row of the sorted rest whose APY is lower.
RECURSIVE InsertByApy(_, _)
InsertByApy(sorted, row) ==
    IF sorted = <<>> THEN <<row>>
    ELSE IF Head(sorted).APY < row.APY THEN <<row>> \o sorted
    ELSE <<Head(sorted)>> \o InsertByApy(Tail(sorted), row)

RECURSIVE SortByApy(_)
SortByApy(table) ==
    IF table = <<>> THEN <<>>
    ELSE InsertByApy(SortByApy(SubSeq(table, 1, Len(table) - 1)), table[Len(table)])

\* What st.dataframe is given at the end of a tab.
Shown(tab, table) == IF tab = "loans" THEN SortByApy(table) ELSE table

AfterRecord_Blanking(table, r) ==
    CASE r.kind = "row" -> Append(table, r.row)
      [] r.kind = "raise" -> <<>>
      [] OTHER -> table

\* rows.append(...) at the end of the try block; `except Exception: continue`
\* and `else: continue` leave rows as they are.
AfterRecord(table, r) == IF r.kind = "row" THEN Append(table, r.row) ELSE table

\* `if loans and len(loans) > 0:` and its like: rows = [] and the loop, or
\* the st.info of an empty collection.
TabBegin(tab) ==
    /\ pc = AtTab(tab)
    /\ IF TabRecords(tab) # <<>>
       THEN /\ rows' = <<>>
            /\ taken' = 0
            /\ pc' = InLoop(tab)
       ELSE /\ pc' = AfterTab(tab)
            /\ UNCHANGED <<rows, taken>>
    /\ UNCHANGED <<clock, earnVars, fetchVars, metricVars, shown>>

\* One iteration of the loop of a tab.
TabStep(tab) ==
    /\ pc = InLoop(tab)
    /\ taken < Len(TabRecords(tab))
    /\ rows' = AfterRecord(rows, ParseRecord(tab, TabRecords(tab)[taken + 1], taken + 1, clock))
    /\ taken' = taken + 1
    /\ UNCHANGED <<pc, clock, earnVars, fetchVars, metricVars, shown>>

\* After the loop: the table shown when there are rows.
TabEnd(tab) ==
    /\ pc = InLoop(tab)
    /\ taken = Len(TabRecords(tab))
    /\ shown' = Put(shown, tab, Shown(tab, rows))
    /\ pc' = AfterTab(tab)
    /\ UNCHANGED <<clock, earnVars, fetchVars, metricVars, rows, taken>>

\* process_earnings over the batch the fetch section left in raw_ledgers.
ProcessLedger ==
    /\ k < Len(raw_ledgers)
    /\ ProcessEntry({raw_ledgers[k + 1]})

ReturnLedger ==
    /\ k = Len(raw_ledgers)
    /\ ReturnEarnings

\* The logical values of a funding record: when, how much (signed), at what
\* daily rate (0 for an offer at the floating rate), for how many days.
Logical ==
    [ts : {Ms(70)}, amount : {10000, -10000}, rate : {0, 200}, period : {30}]

\* The mapping that holds v under the first alias of each field.
DictOf(v) ==
    [BlankDict EXCEPT !.timestamp = v.ts, !.amount = Num(v.amount),
                      !.rate = Num(v.rate), !.period = Num(v.period)]

\* The offsets of the timestamp, the amount, the rate and the period in the
\* array of a record class, and the length of the array.
Offsets(tab) ==
    CASE tab = "loans" -> [ts |-> 3, amount |-> 5, rate |-> 11, period |-> 12, len |-> 13]
      [] tab = "offers" -> [ts |-> 2, amount |-> 4, rate |-> 14, period |-> 15, len |-> 16]
      [] tab = "trades" -> [ts |-> 2, amount |-> 4, rate |-> 5, period |-> 6, len |-> 7]

\* The array that holds v at the offsets of the record class.
ListOf(tab, v) ==
    LET o == Offsets(tab)
    IN  Array([n \in 1..o.len |->
                CASE n = o.ts + 1 -> v.ts
                  [] n = o.amount + 1 -> Num(v.amount)
                  [] n = o.rate + 1 -> Num(v.rate)
                  [] n = o.period + 1 -> Num(v.period)
                  [] OTHER -> Num(0)])

\* Mappings with null, aliased, missing or unparsable fields.
OddDicts ==
    {[BlankDict EXCEPT !.amount = None, !.amount_lent = Num(10000), !.rate = Num(200),
                       !.period = Num(30), !.timestamp = Ms(70)],
     [BlankDict EXCEPT !.amount_lent = Num(10000), !.rate_percent = Num(200),
                       !.price = Num(200), !.mts = Ms(70),
                       !.info = Info(Num(30), Num(1024))],
     [BlankDict EXCEPT !.amount = Num(10000), !.rate = None, !.rate_percent = Num(200),
                       !.price = Num(200)],
     [BlankDict EXCEPT !.amount = Num(10000), !.rate = Str, !.timestamp = Str],
     [BlankDict EXCEPT !.amount = Num(10000), !.rate = Num(200), !.period = None,
                       !.info = NullInfo],
     [BlankDict EXCEPT !.amount = Str, !.rate = Num(200)]}

\* Arrays too short for some offsets, or with a null element.
OddArrays(tab) ==
    {Array(<<>>),
     Array(SubSeq(ListOf(tab, [ts |-> Ms(70), amount |-> 10000, rate |-> 200,
                               period |-> 30]).items, 1, Offsets(tab).amount + 1)),
     Array([n \in 1..Offsets(tab).len |-> None])}

FundingRecords(tab) ==
    {DictOf(v) : v \in Logical} \cup {ListOf(tab, v) : v \in Logical}
        \cup OddDicts \cup OddArrays(tab) \cup {Scalar}

\* A short ledger: income, an outflow, an unparsable amount, unserializable
\* metadata, an entry that is no mapping.
BookLedgerEntries ==
    {LedgerEntry(Num(42), Text({"payout"}), MissingText, MissingMeta, MissingMeta, Ms(76)),
     LedgerEntry(Num(7), MissingText, MissingText, Meta({"interest"}), MissingMeta, Missing),
     LedgerEntry(Num(-500), Text({"payout"}), MissingText, MissingMeta, MissingMeta, Ms(76)),
     LedgerEntry(Str, Text({"payout"}), MissingText, MissingMeta, MissingMeta, Ms(76)),
     LedgerEntry(Num(42), Text({"payout"}), MissingText, Unserializable, MissingMeta, Ms(76)),
     NotADict}

\* The lists of at most MaxBatch records of S.
Lists(S) == UNION {[1..n -> S] : n \in 0..MaxBatch}

InitBook ==
    /\ EarningsIdle
    /\ MetricsIdle
    /\ TabsIdle
    /\ ChainIdle
    /\ clock = FirstClock
    /\ balance_data = NoBalance
    /\ debug_info = [key \in {} |-> ""]
    /\ ex = [c \in {} |-> 0]
    /\ \/ /\ pc = "earnings"
          /\ raw_ledgers \in Lists(BookLedgerEntries)
          /\ loans = <<>> /\ offers = <<>> /\ trades = <<>>
       \/ /\ pc = "tab_loans"
          /\ loans \in Lists(FundingRecords("loans"))
          /\ raw_ledgers = <<>> /\ offers = <<>> /\ trades = <<>>
       \/ /\ pc = "tab_loans"
          /\ offers \in Lists(FundingRecords("offers"))
          /\ raw_ledgers = <<>> /\ loans = <<>> /\ trades = <<>>
       \/ /\ pc = "tab_loans"
          /\ trades \in Lists(FundingRecords("trades"))
          /\ raw_ledgers = <<>> /\ loans = <<>> /\ offers = <<>>

NextBook ==
    \/ ProcessLedger
    \/ ReturnLedger
    \/ TabBegin("loans")
    \/ TabStep("loans")
    \/ TabEnd("loans")
    \/ TabBegin("offers")
    \/ TabStep("offers")
    \/ TabEnd("offers")
    \/ TabBegin("trades")
    \/ TabStep("trades")
    \/ TabEnd("trades")

SpecBook == InitBook /\ [][NextBook]_vars

-----------------------------------------------------------------------------
(* Claims about process_earnings *)

\* The configured keyword sets of the classifier's rules 3 and 4.
ExclusionKeywords ==
    {"transfer", "deposit", "withdrawal", "exchange", "trading fee", "affiliate",
     "settlement", "claim"}

IncomeKeywords == {"funding", "payment", "interest", "payout"}

\* The entry taken last is a mapping with a numeric amount.
HasAmount == k > 0 /\ entry.shape = "dict" /\ entry.amount.k = "num"

\* The entry taken last has contributed a row to the income set.
Contributed == \E j \in 1..Len(data) : data[j].src = k

\* The metadata of the entry: its info, else its details.
Metadata == Get(entry.info, Get(entry.details, Meta({})))

\* The keywords of the declared type, the description and the metadata.
AllWords == Lower(entry.type) \cup Lower(entry.description) \cup Dumps(Metadata)

\* C1: an entry whose amount is < 0 or == 0 never contributes a row to the
\* income set, whatever its type, description or metadata contain.
C1_NonPositiveNeverIncome ==
    (HasAmount /\ entry.amount.v <= 0) => ~Contributed

\* An outflow and a zero entry that carry income keywords were processed.
C1_Witness ==
    /\ HasAmount
    /\ entry.amount.v = 0
    /\ "payout" \in Lower(entry.type)
    /\ "funding" \in Dumps(Metadata)
    /\ ~Contributed
    /\ Len(data) = 1

\* C2: an entry with amount > 0 and no exclusion keyword is counted as income
\* whenever an income keyword appears in any of its type, description or
\* metadata.
C2_IncomeKeywordAnywhere ==
    (/\ HasAmount
     /\ entry.amount.v > 0
     /\ Dumpable(Metadata)
     /\ AllWords \cap ExclusionKeywords = {}
     /\ AllWords \cap IncomeKeywords # {}) => Contributed

\* C3: an entry with amount > 0 whose type, description or metadata contains
\* an exclusion keyword is never counted as income, even when an income
\* keyword is present too.
C3_ExclusionFirst ==
    (/\ HasAmount
     /\ entry.amount.v > 0
     /\ AllWords \cap ExclusionKeywords # {}) => ~Contributed

\* Reference principals (cents); 0 stands for zero or unknown.
ReferencePrincipals == {0, 100000}

\* reference_principal x 0.005 <= amount, or the absolute 10 units (1000 cents).
WithinThreshold(amount, principal) ==
    IF principal = 0 THEN amount <= 1000 ELSE amount * 1000 <= principal * 5

\* C4: with amount > 0 and no exclusion and no income keyword, the entry is
\* income when amount <= threshold and not income above it.
C4_MagnitudeFallback ==
    \A p \in ReferencePrincipals :
        (/\ HasAmount
         /\ entry.amount.v > 0
         /\ Dumpable(Metadata)
         /\ AllWords \cap (ExclusionKeywords \cup IncomeKeywords) = {})
        => (Contributed <=> WithinThreshold(entry.amount.v, p))

-----------------------------------------------------------------------------
(* Claims about the fetch section *)

FundingClasses == {"loans", "offers", "trades"}

Collection(class) ==
    CASE class = "loans" -> loans
      [] class = "offers" -> offers
      [] class = "trades" -> trades

\* The failures the chain of a class has noted in debug_info.
NotedFailures(class) ==
    LET m == debug_info[class \o "_method"]
    IN  {i \in 1..4 : \E j \in 1..Len(m.failures) : m.failures[j] = FailureNotes(class)[i]}

\* C5: for every combination of fetch failures the fetch section runs to its
\* end; a failed class is left empty (the balance an empty wallet) with its
\* diagnostic in debug_info, and a class whose fetch succeeded keeps exactly
\* the records returned.
C5_FetchFailuresIndependent ==
    /\ pc # "raised"
    /\ pc # "fetched" => ENABLED NextFetch
    /\ pc = "fetched" =>
         /\ IF ex["balance"].failed
            THEN /\ balance_data = EmptyDict
                 /\ {"balance_error", "balance_error_2"} \subseteq DOMAIN debug_info
            ELSE balance_data = ex["balance"].records
         /\ IF ex["ledgers"].failed
            THEN raw_ledgers = <<>> /\ "ledgers_error" \in DOMAIN debug_info
            ELSE raw_ledgers = ex["ledgers"].records
         /\ \A c \in FundingClasses :
              IF ex[c].failed
              THEN /\ Collection(c) = <<>>
                   /\ debug_info[c \o "_method"].name = "all_failed"
                   /\ NotedFailures(c) = ex[c].failures
              ELSE Collection(c) = ex[c].records

\* The trades (and the ledger) fetch failed, the loans fetch returned records
\* through its second strategy, and the loans are still there at the end.
C5_Witness ==
    /\ pc = "fetched"
    /\ ex["trades"].failed
    /\ ex["trades"].failures = {1, 2, 3, 4}
    /\ ex["ledgers"].failed
    /\ ex["balance"].failed
    /\ ~ex["loans"].failed
    /\ loans = <<[id |-> 2]>>

\* The strategies up to the n-th that the exchange object has, in their order.
Present(outs, n) == SelectSeq([i \in 1..n |-> i], LAMBDA i : outs[i].k # "absent")

\* The failure texts of the strategies that raised, in their order.
RaisedNotes(class, outs) ==
    LET raised == SelectSeq([i \in 1..Len(outs) |-> i], LAMBDA i : outs[i].k = "raise")
    IN  [j \in 1..Len(raised) |-> FailureNotes(class)[raised[j]]]

\* C13: a chain tries its four strategies in their fixed order and returns
\* the result of the first that returns a non-empty result, tagged with its
\* name, calling no later strategy; a strategy that raises, is absent or
\* returns nothing does not stop the chain; when no strategy returns records
\* the chain returns ([], all_failed) listing every error raised; the chain
\* always returns.
C13_FirstNonEmptyWins ==
    /\ pc = "chain" => ENABLED CallChain
    /\ pc = "returned" =>
         LET outs == exchange.outs
             first == FirstNonEmpty(outs)
             r == returned.value
         IN  /\ returned.k = "return"
             /\ IF first # 0
                THEN /\ r.res = outs[first].res
                     /\ r.method.name = MethodNames(exchange.class)[first]
                     /\ r.called = Present(outs, first)
                ELSE /\ r.res = <<>>
                     /\ r.method.name = "all_failed"
                     /\ r.method.failures = RaisedNotes(exchange.class, outs)
                     /\ r.called = Present(outs, Len(outs))

\* The first strategy raised, the second is absent, the third returned
\* nothing, the fourth returned records: the chain returned them under the
\* fourth name.
C13_Witness ==
    /\ pc = "returned"
    /\ exchange.class = "trades"
    /\ exchange.outs[1].k = "raise"
    /\ exchange.outs[2].k = "absent"
    /\ exchange.outs[3] = Returns(<<>>)
    /\ returned.value.res = <<[id |-> 4]>>
    /\ returned.value.method.name = "request_private_v2_trades"
    /\ returned.value.called = <<1, 3, 4>>

-----------------------------------------------------------------------------
(* Claims about the tabs *)

Tabs == {"loans", "offers", "trades"}

\* The tabs whose loop has run to its end.
Finished == DOMAIN shown

\* The outcome of the loop body on the j-th record of a tab / of the ledger.
Outcome(tab, j) == ParseRecord(tab, TabRecords(tab)[j], j, clock)

LedgerOutcome(j) == EarningsRow(raw_ledgers[j], j, clock)

\* The rows of a table that come from the j-th record, without their origin.
Strip(row) == [f \in DOMAIN row \ {"src"} |-> row[f]]

RowsFrom(table, j) == {Strip(table[n]) : n \in {m \in 1..Len(table) : table[m].src = j}}

\* The rows of a table are those of the records that gave a row, in the
\* order of the records.
Faithful(table, done, out(_)) ==
    /\ \A n \in 1..Len(table) : table[n].src \in 1..done
    /\ \A n, m \in 1..Len(table) : n < m => table[n].src < table[m].src
    /\ \A j \in 1..done :
         IF out(j).kind = "row"
         THEN \E n \in 1..Len(table) : table[n] = out(j).row
         ELSE \A n \in 1..Len(table) : table[n].src # j

RECURSIVE FirstNonNull(_, _)
FirstNonNull(values, default) ==
    IF values = <<>> THEN default
    ELSE IF Head(values).k \in {"missing", "none"}
         THEN FirstNonNull(Tail(values), default)
         ELSE Head(values)

\* A field that cannot be made a number degrades to its default.
OrDefault(value, default) == IF Coercible(value) THEN value.v ELSE default

AmountOf(r) == FirstNonNull(<<r.amount, r.amount_lent>>, Num(0))

RateOf(tab, r) ==
    OrDefault(FirstNonNull(<<r.rate, IF tab = "offers" THEN r.price ELSE r.rate_percent>>,
                           Num(0)), 0)

PeriodOf(r) ==
    OrDefault(FirstNonNull(<<Get(r.info, r.details).period, r.period>>, Num(2)), 2)

\* C7: a mapping-shaped funding record whose amount (amount, then
\* amount_lent: the first present and non-null) is a number appears in the
\* output with that amount, and a rate or period that is missing, null or not
\* coercible takes its default (rate 0, period 2) instead of dropping the row.
C7_FirstNonNullAlias ==
    \A tab \in Finished :
        \A j \in 1..Len(TabRecords(tab)) :
            LET r == TabRecords(tab)[j]
            IN  (/\ r.shape = "dict"
                 /\ Coercible(AmountOf(r))
                 /\ tab = "trades" => AmountOf(r).v > 0)
                => \E n \in 1..Len(shown[tab]) :
                     /\ shown[tab][n].src = j
                     /\ shown[tab][n].amount = AmountOf(r).v
                     /\ shown[tab][n].days = PeriodOf(r)
                     /\ tab # "offers" => shown[tab][n].APY = RateOf(tab, r) * 365 * 100

\* C8: a mapping and an array of the same record class that encode the same
\* logical values (timestamp, signed amount, rate, period) give the same
\* output row.
C8_SameRowAcrossShapes ==
    \A tab \in Finished :
        \A v \in Logical :
            \A a, b \in 1..Len(TabRecords(tab)) :
                (TabRecords(tab)[a] = DictOf(v) /\ TabRecords(tab)[b] = ListOf(tab, v))
                => RowsFrom(shown[tab], a) = RowsFrom(shown[tab], b)

-----------------------------------------------------------------------------
(* Claims about the metrics *)

WalletDone == pc \in {"income", "apy", "chart", "charted"}

\* C9: utilization is within [0, 100] whenever free <= total and total > 0,
\* exactly 0 when total == 0 (balance fetch failed, USD entry missing or
\* null), and no wallet input makes the computation raise.
C9_UtilizationBounded ==
    /\ pc # "raised"
    /\ WalletDone =>
         /\ total_assets = 0 => utilization = Zero
         /\ (total_assets > 0 /\ free_assets <= total_assets) =>
              /\ utilization.den > 0
              /\ 0 <= utilization.num
              /\ utilization.num <= 100 * utilization.den

\* The instant the lifetime APY was computed at.
AsOf == now_read["days_diff"]

\* (as_of.date - earliest income date).days + 1
ActiveDays == DateOf(AsOf) - MinDate(data) + 1

LifetimeIncome == SumAmount(data)

\* C10 as claimed: lifetime_apy is 0 with no income entry or no principal, and
\* otherwise (lifetime_income / active_days / total_principal) x 365 x 100
\* with active_days floored at 1.
C10_ApyFlooredAtOne ==
    pc = "chart" =>
        apy_all_time =
            IF data = <<>> \/ total_assets = 0 THEN Zero
            ELSE Ratio(LifetimeIncome * 365 * 100,
                       (IF ActiveDays < 1 THEN 1 ELSE ActiveDays) * total_assets)

\* C10 amended: lifetime_apy is 0 with no income entry, with no principal, or
\* when the earliest income date is after as_of (active_days < 1); otherwise
\* it is (lifetime_income / active_days / total_principal) x 365 x 100.
C10_ApyGuarded ==
    pc = "chart" =>
        apy_all_time =
            IF data = <<>> \/ total_assets = 0 THEN Zero
            ELSE IF ActiveDays < 1 THEN Zero
            ELSE Ratio(LifetimeIncome * 365 * 100, ActiveDays * total_assets)

\* The earliest income entry is dated after as_of and the principal is not
\* zero: the lifetime APY is 0.
C10_Witness ==
    /\ pc = "chart"
    /\ data # <<>>
    /\ total_assets = 500
    /\ ActiveDays < 1
    /\ apy_all_time = Zero

\* The chart has exactly one row per day of start..end, in date order, each
\* with the sum of the income rows of that day.
Bucketed(chart, df, start, end) ==
    /\ Len(chart) = end - start + 1
    /\ \A n \in 1..Len(chart) :
         /\ chart[n].date = start + n - 1
         /\ chart[n].amount =
                SumAmount(SelectSeq(df, LAMBDA r : r.date = chart[n].date))

\* C11: the chart holds exactly one bucket per calendar day of
\* [start_date, end_date] inclusive, in date order, each with the sum of the
\* income entries of that day and 0 for a day without income; with no income
\* entry it still holds one bucket of 0 per day of the range.
C11_OneBucketPerDay ==
    pc = "charted" =>
        IF data # <<>>
        THEN Bucketed(df_chart, data, start_date, end_date)
        ELSE /\ Len(df_chart) >= 1
             /\ Bucketed(df_chart, data, df_chart[1].date, df_chart[Len(df_chart)].date)

\* The dates of the instants the clock was read at for the 30-day cutoff,
\* for days_diff and for end_date.
AsOfDates == {DateOf(now_read[site]) : site \in DOMAIN now_read}

\* C12: within one pass the 30-day cutoff, the active days of the lifetime
\* APY and the end date of the chart are computed from one instant, so they
\* never correspond to different dates.
C12_SingleAsOf ==
    pc = "charted" =>
        /\ Cardinality(AsOfDates) <= 1
        /\ data # <<>> =>
             /\ cutoff_30d = end_date - 30
             /\ days_diff = end_date - MinDate(data) + 1

====
